---- MODULE Spec2Model ----
(***************************************************************************)
(* Celebration-website backend: the schema migration (app.py               *)
(* run_migrations on PostgreSQL, db_Setup.py migrate_database on SQLite),  *)
(* the module initialization of app.py, and the SQLite backup restoration  *)
(* (backup_restoration.py), the keep-alive pinger (keep_alive.py) and the   *)
(* upload, bulk-delete, donation and webhook handlers of app.py.           *)
(*                                                                         *)
(* Six specifications:                                                     *)
(*   Spec         one program per behaviour, either the app.py process     *)
(*                (boot, init_db, run_migrations, request serving) or the  *)
(*                db_Setup.py script, run repeatedly and killable at any   *)
(*                step;                                                    *)
(*   SpecRestore  create_backup, damage to the dump file, and the          *)
(*                boot-time restore auto_restore_backup_on_init;           *)
(*   SpecKeepAlive  one BackendKeepAlive object: start() and stop() calls, *)
(*                its loop threads and its Timer threads, interleaved;     *)
(*   SpecPing     the same object and steps with one start() call and      *)
(*                requests enough for the longest chain of retries;        *)
(*   SpecMemories one request to submit_photo_memory, submit_video_memory  *)
(*                or bulk_delete_memories on a memories table of some rows;*)
(*   SpecDonations  create_payment_intent and stripe_webhook requests,     *)
(*                with and without a webhook secret.                       *)
(***************************************************************************)
EXTENDS Integers, Sequences, FiniteSets, Bags, TLC

\* ------------------------------------------------------------------ bounds
\* Boots of the app.py process in one behaviour.
MaxBoots == 2
\* Runs of the db_Setup.py script in one behaviour.
MaxRuns == 2
\* Rows per table of a store (request handlers insert up to it).
MaxRows == 1

\* ------------------------------------------------------- schema, migration
\* The columns both migrations add when missing (name, column definition).
columns_to_add ==
    << [name |-> "storage_type", def |-> "TEXT DEFAULT 'cloudinary'"],
       [name |-> "file_size", def |-> "INTEGER"] >>

DesiredColumns == {columns_to_add[i].name : i \in 1..Len(columns_to_add)}

\* The columns of memories that no migration adds.
BaseColumns ==
    {"id", "name", "caption", "image_url", "cloudinary_id", "type", "created_at"}

\* CREATE TABLE IF NOT EXISTS memories: every column, when the table is new.
CreateTableIfNotExists(cols) ==
    IF cols = {} THEN BaseColumns \cup DesiredColumns ELSE cols

\* A column set of an existing memories table; {} stands for "no table".
LegacySchemas == {{}} \cup {BaseColumns \cup S : S \in SUBSET DesiredColumns}

\* "if column_name not in existing_columns"
ColumnMissing(column_name, existing) == column_name \notin existing

\* ALTER TABLE memories ADD COLUMN <name> <def> on a table holding cols.
AlterTableReplaceColumns(cols, column_name) ==
    (cols \ DesiredColumns) \cup {column_name}

AlterTableAddColumn(cols, column_name) == cols \cup {column_name}

\* Whether the store accepts the ALTER: the table exists, the column is new,
\* and no transient fault (lock timeout, lost connection) hits the statement.
AlterSucceeds(cols, column_name, fault) ==
    /\ cols # {}
    /\ column_name \notin cols
    /\ ~fault

\* PostgreSQL COMMIT: a transaction aborted by a failed statement is rolled
\* back, an open one becomes the committed state.
PgCommitLost(tx, committed, working) == committed

PgCommit(tx, committed, working) ==
    IF tx = "open" THEN working ELSE committed

\* run_migrations' outer "except Exception": TRUE when the exception leaves
\* the function, FALSE when it is printed and swallowed.
MigrationErrorReraised == TRUE

MigrationErrorPropagates == FALSE

\* One finished (or abandoned) migration run.
RunRecord(before, after, attempted, added, failed, faults, rowsBefore, rowsAfter) ==
    [before |-> before, after |-> after, attempted |-> attempted,
     added |-> added, failed |-> failed, faults |-> faults,
     rowsBefore |-> rowsBefore, rowsAfter |-> rowsAfter]

NoRun == [before |-> {}, attempted |-> {}, added |-> {}, failed |-> {},
          faults |-> 0, rowsBefore |-> << >>]

NoKill == [valid |-> FALSE, program |-> "none", before |-> {}, after |-> {}]

\* ------------------------------------------------- rows of memories
\* What a stored row holds for a column it was written without, because the
\* column did not exist yet.
Unset == "unset"

SqlNull == "NULL"

\* The value of the DEFAULT clause of a column definition: NULL without one.
ColumnDefaultNull(column_def) == SqlNull

ColumnDefault(column_def) ==
    IF column_def = "TEXT DEFAULT 'cloudinary'" THEN "cloudinary" ELSE SqlNull

\* The default of one of the columns of columns_to_add (CREATE TABLE declares
\* the two columns in the same words).
DefaultOf(column_name) ==
    ColumnDefault(columns_to_add[CHOOSE i \in 1..Len(columns_to_add) :
                                   columns_to_add[i].name = column_name].def)

\* The values a request handler names in its INSERT INTO memories: none of
\* the two columns (submit_text_memory), or both (the uploads).
TextMemoryValues == [c \in {} |-> SqlNull]

UploadValues == [c \in DesiredColumns |->
                   IF c = "storage_type" THEN "local" ELSE "12"]

\* Whether the store accepts INSERT INTO memories naming these columns.
InsertAccepted(cols, values) == cols # {} /\ DOMAIN values \subseteq cols

StoredValue(column_name, cols, values) ==
    IF column_name \notin cols THEN Unset
    ELSE IF column_name \in DOMAIN values THEN values[column_name]
    ELSE DefaultOf(column_name)

\* The row INSERT INTO memories stores on a table holding cols; given is
\* the set of columns the statement named (history).
StoredRow(cols, values) ==
    [storage_type |-> StoredValue("storage_type", cols, values),
     file_size |-> StoredValue("file_size", cols, values),
     given |-> DOMAIN values]

\* SELECT <column_name> FROM memories for one row: a row written before
\* ALTER TABLE ... ADD COLUMN reads the column's default.
ReadColumn(row, column_name, cols) ==
    IF column_name \notin cols THEN "no such column"
    ELSE IF row[column_name] = Unset THEN DefaultOf(column_name)
    ELSE row[column_name]

\* The rows a memories table of n rows holds before any run: every column
\* the table has was given a value.
LegacyRows(cols, n) ==
    [i \in 1..n |-> StoredRow(cols, [c \in DesiredColumns \cap cols |->
                                       UploadValues[c]])]

VARIABLES
    program,            \* "app" (app.py) or "db_Setup" (db_Setup.py)
    \* --- PostgreSQL store and the app.py process
    pgCols,             \* committed columns of memories ({}: no table)
    pgRows,             \* committed rows: [messages |-> n, memories |-> n]
    pgMem,              \* the committed rows of memories, in insertion order
    pgTx,               \* boot connection: "closed", "open", "aborted"
    pgTxCols,           \* the columns the boot connection's transaction sees
    pc,                 \* position in app.py's module body
    runAsMain,          \* __name__ == '__main__'
    railwayEnv,         \* RAILWAY_ENVIRONMENT is set
    boots,              \* boots so far
    bootLog,            \* what this boot has run, in order
    mpc,                \* position in run_migrations
    existing_columns,   \* run_migrations' snapshot of the live columns
    idx,                \* index into columns_to_add
    migration_applied,  \* run_migrations' flag
    mrun,               \* the run in progress (history)
    pgRuns,             \* finished runs of run_migrations (history)
    mlog,               \* what the run in progress did, in order (history)
    pgLogs,             \* the same for the finished runs (history)
    introspectFailed,   \* this boot's migration could not connect or read
    raisedToCaller,     \* an exception left run_migrations in this boot
    \* --- SQLite store and the db_Setup.py script
    liteCols,           \* columns of memories in celebration.db ({}: no table)
    liteRows,           \* rows in celebration.db: [messages |-> n, memories |-> n]
    liteMem,            \* the rows of memories in celebration.db
    spc,                \* position in migrate_database
    sExisting,          \* migrate_database's existing_columns
    sIdx,               \* index into columns_to_add
    srun,               \* the run in progress (history)
    liteRuns,           \* finished runs of migrate_database (history)
    slog,               \* what the run in progress did, in order (history)
    liteLogs,           \* the same for the finished runs (history)
    runsStarted,        \* runs of the script so far
    scriptRaised,       \* the last run ended with an uncaught exception
    killed              \* the last kill that hit a migration run (history)

appVars == << pgCols, pgRows, pgMem, pgTx, pgTxCols, pc, runAsMain, railwayEnv,
              boots, bootLog, mpc, existing_columns, idx, migration_applied, mrun,
              pgRuns, mlog, pgLogs, introspectFailed, raisedToCaller >>

scriptVars == << liteCols, liteRows, liteMem, spc, sExisting, sIdx, srun,
                 liteRuns, slog, liteLogs, runsStarted, scriptRaised >>

migVars == << program, appVars, scriptVars, killed >>

VARIABLES
    \* --- SQLite store celebration.db, the dump file, the boot-time restore
    store,              \* committed rows: [messages |-> set, memories |-> set]
    view,               \* the rows the open connection reads
    inTxn,              \* the connection has an open transaction
    connOpen,           \* auto_restore_backup_on_init's connection is open
    dumpExists,         \* a file exists at backup_path
    dump,               \* its statements, in order
    damaged,            \* the file was cut or corrupted after it was written
    backedUp,           \* the store contents the last create_backup read (history)
    backup_exists,      \* BackupRestoration.backup_exists
    restored_count,     \* BackupRestoration.restored_count
    rpc,                \* position in auto_restore_backup_on_init
    outcome,            \* "none", "skipped", "restored", "failed", "error"
    restoreRet,         \* what restore returned: "none", "True", "False"
    executed,           \* dump statements executed by this boot (history)
    execFailed,         \* a dump statement failed in this boot (history)
    readFailed,         \* the dump could not be read in this boot (history)
    storeBefore,        \* the store when this boot's restore began (history)
    arRaised,           \* an exception left auto_restore_backup_on_init
    \* --- create_backup
    btab,               \* index into BackupTables of the table to read next;
                        \* 0 when no create_backup call is under way
    backupRet,          \* what the last call returned: "none", "True", "False"
    bfault,             \* what failed in it: "none", "open" or the table (history)
    seen                \* the store states since the call began (history)

backupVars == << btab, backupRet, bfault, seen >>

restoreVars == << store, view, inTxn, connOpen, dumpExists, dump, damaged,
                  backedUp, backup_exists, restored_count, rpc, outcome,
                  restoreRet, executed, execFailed, readFailed, storeBefore,
                  arRaised, backupVars >>

\* ---------------------------------------------------------------------
\* keep_alive.py: the state of one BackendKeepAlive object and its threads.
\* ---------------------------------------------------------------------
VARIABLES
    max_retries,        \* self.max_retries, a constructor argument
    failure_threshold,  \* self.failure_threshold, a constructor argument
    is_active,          \* self.is_active
    failure_count,      \* self.failure_count
    starting,           \* start() callers between line 105 and the lock of line 109
    loops,              \* bag of live _keep_alive_loop threads [type, pc, due]
    timers,             \* bag of threading.Timer threads not yet fired [type, retry, delay]
    checks,             \* bag of fired timer threads standing at line 281 [due]
    startsLeft,         \* start() calls the behaviour has yet to make
    requestsLeft,       \* requests _make_request has yet to send
    stopped,            \* stop() has returned and start() was not called since
    sentAfterStop,      \* a request was sent while stopped held
    failsSince,         \* failed non-startup attempts since the last successful ping
    lastCheck,          \* the last pass of line 281: whether its attempt left the count at the threshold, and whether it alerted
    lastAttempt         \* the last _ping attempt: its retry_count, outcome and the timers it scheduled

kaVars == << max_retries, failure_threshold, is_active, failure_count, starting,
             loops, timers, checks, startsLeft, requestsLeft, stopped, sentAfterStop,
             failsSince, lastCheck, lastAttempt >>

\* ---------------------------------------------------------------------
\* app.py: the memories and donations tables as the request handlers see them.
\* ---------------------------------------------------------------------
VARIABLES
    memories,       \* ids of the committed rows of the memories table
    nextId,         \* the next value of the SERIAL sequence of memories.id
    donations,      \* committed donations rows: stripe_payment_id -> status
    localVideo,     \* USE_LOCAL_VIDEO_STORAGE
    webhookSecret,  \* STRIPE_WEBHOOK_SECRET is set
    served,         \* requests handled so far
    request,        \* the last request handled
    response        \* the response to it, and what the handler committed

handlerVars == << memories, nextId, donations, localVideo, webhookSecret,
                  served, request, response >>

\* The variables each specification leaves alone.
notMig == << restoreVars, kaVars, handlerVars >>

notRestore == << migVars, kaVars, handlerVars >>

notKeepAlive == << migVars, restoreVars, handlerVars >>

notHandlers == << migVars, restoreVars, kaVars >>

vars == << migVars, restoreVars, kaVars, handlerVars >>

\* ------------------------------------------------------------------- Init
MigInit ==
    /\ program \in {"app", "db_Setup"}
    /\ pgCols \in IF program = "app" THEN LegacySchemas ELSE {{}}
    /\ pgRows \in IF program = "app"
                  THEN {r \in [{"messages", "memories"} -> 0..MaxRows] :
                          pgCols = {} => r["memories"] = 0}
                  ELSE {[t \in {"messages", "memories"} |-> 0]}
    /\ pgMem = LegacyRows(pgCols, pgRows["memories"])
    /\ pgTx = "closed"
    /\ pgTxCols = {}
    /\ pc = "down"
    /\ runAsMain = FALSE
    /\ railwayEnv = FALSE
    /\ boots = 0
    /\ bootLog = << >>
    /\ mpc = "idle"
    /\ existing_columns = {}
    /\ idx = 1
    /\ migration_applied = FALSE
    /\ mrun = NoRun
    /\ pgRuns = << >>
    /\ mlog = << >>
    /\ pgLogs = << >>
    /\ introspectFailed = FALSE
    /\ raisedToCaller = FALSE
    /\ liteCols \in IF program = "db_Setup" THEN LegacySchemas ELSE {{}}
    /\ liteRows \in IF program = "db_Setup"
                    THEN {r \in [{"messages", "memories"} -> 0..MaxRows] :
                            liteCols = {} => r["memories"] = 0}
                    ELSE {[t \in {"messages", "memories"} |-> 0]}
    /\ liteMem = LegacyRows(liteCols, liteRows["memories"])
    /\ slog = << >>
    /\ liteLogs = << >>
    /\ spc = "idle"
    /\ sExisting = {}
    /\ sIdx = 1
    /\ srun = NoRun
    /\ liteRuns = << >>
    /\ runsStarted = 0
    /\ scriptRaised = FALSE
    /\ killed = NoKill

\* ------------------------------------------------- app.py: module body
\* Where the module body goes once the development entry point is passed:
\* "if os.getenv('RAILWAY_ENVIRONMENT')".
AfterEntryPointInverted(env) == IF env THEN "loaded" ELSE "init_db"

AfterEntryPoint(env) == IF env THEN "init_db" ELSE "loaded"

\* The interpreter starts executing app.py: as a script (__main__: app.run
\* comes first and serves until the server stops) or imported by the WSGI
\* server (the module body runs to its end, then requests are served).
Boot ==
    /\ program = "app"
    /\ pc = "down"
    /\ boots < MaxBoots
    /\ \E main \in BOOLEAN, env \in BOOLEAN :
          /\ runAsMain' = main
          /\ railwayEnv' = env
          /\ pc' = IF main THEN "app_run" ELSE AfterEntryPoint(env)
          /\ bootLog' = IF main THEN << "serve" >> ELSE << >>
    /\ boots' = boots + 1
    /\ introspectFailed' = FALSE
    /\ raisedToCaller' = FALSE
    /\ UNCHANGED << pgCols, pgRows, pgTx, pgTxCols, mpc, existing_columns, idx,
                    migration_applied, mrun, pgRuns, scriptVars, program, killed, pgMem, mlog, pgLogs,
                    notMig >>

\* app.run(...) returns: the development server was stopped.
AppRunReturns ==
    /\ pc = "app_run"
    /\ pc' = AfterEntryPoint(railwayEnv)
    /\ UNCHANGED << pgCols, pgRows, pgTx, pgTxCols, runAsMain, railwayEnv, boots,
                    bootLog, mpc, existing_columns, idx, migration_applied, mrun,
                    pgRuns, introspectFailed, raisedToCaller, scriptVars, program,
                    killed, pgMem, mlog, pgLogs,
                    notMig >>

\* init_db(): get_db, CREATE TABLE IF NOT EXISTS ..., commit, close. An
\* exception (no DATABASE_URL, store unreachable) reaches the module's
\* "except Exception", which prints it; run_migrations is then skipped.
init_db ==
    /\ pc = "init_db"
    /\ \E ok \in BOOLEAN :
          IF ok
          THEN /\ pgCols' = CreateTableIfNotExists(pgCols)
               /\ pc' = "run_migrations"
               /\ bootLog' = Append(bootLog, "init_db")
          ELSE /\ pc' = "loaded"
               /\ bootLog' = Append(bootLog, "init_db raised")
               /\ UNCHANGED pgCols
    /\ UNCHANGED << pgRows, pgTx, pgTxCols, runAsMain, railwayEnv, boots, mpc,
                    existing_columns, idx, migration_applied, mrun, pgRuns,
                    introspectFailed, raisedToCaller, scriptVars, program, killed, pgMem, mlog, pgLogs,
                    notMig >>

\* run_migrations(), up to the column loop: get_db(), cursor, the
\* information_schema query. Either step may raise; the function's outer
\* "except Exception" then prints the error and the function returns.
run_migrations_begin ==
    /\ pc = "run_migrations"
    /\ mpc = "idle"
    /\ \E connects \in BOOLEAN, reads \in BOOLEAN :
          IF connects /\ reads
          THEN /\ pgTx' = "open"
               /\ pgTxCols' = pgCols
               /\ existing_columns' = pgCols
               /\ idx' = 1
               /\ migration_applied' = FALSE
               /\ mpc' = "columns"
               /\ mrun' = [before |-> pgCols, attempted |-> {}, added |-> {},
                           failed |-> {}, faults |-> 0,
                           rowsBefore |-> pgRows]
               /\ mlog' = << >>
               /\ UNCHANGED << pc, bootLog, pgRuns, pgLogs, introspectFailed,
                               raisedToCaller >>
          ELSE \* db.close() is skipped: a connection that was opened is
               \* left to the garbage collector
               /\ \E collected \in BOOLEAN :
                     pgTx' = IF connects /\ ~collected THEN "open" ELSE "closed"
               /\ mlog' = << >>
               /\ pgLogs' = Append(pgLogs, << "error" >>)
               /\ pgTxCols' = pgCols
               /\ introspectFailed' = TRUE
               /\ raisedToCaller' = MigrationErrorPropagates
               /\ pc' = "loaded"
               /\ bootLog' = Append(bootLog, "run_migrations")
               /\ pgRuns' = Append(pgRuns,
                     RunRecord(pgCols, pgCols, {}, {}, {}, 1, pgRows, pgRows))
               /\ UNCHANGED << existing_columns, idx, migration_applied, mpc,
                               mrun >>
    /\ UNCHANGED << pgCols, pgRows, runAsMain, railwayEnv, boots, scriptVars,
                    program, killed, pgMem,
                    notMig >>

\* One pass of "for column_name, column_def in columns_to_add": skip a
\* column that exists; otherwise ALTER TABLE inside the connection's
\* transaction. A failed statement (psycopg2.Error, caught) leaves the
\* transaction aborted, and every later statement of it fails too.
run_migrations_column ==
    /\ mpc = "columns"
    /\ idx <= Len(columns_to_add)
    /\ LET column_name == columns_to_add[idx].name IN
       IF ColumnMissing(column_name, existing_columns)
       THEN \E fault \in BOOLEAN :
              IF pgTx = "open" /\ AlterSucceeds(pgTxCols, column_name, fault)
              THEN /\ pgTxCols' = AlterTableAddColumn(pgTxCols, column_name)
                   /\ migration_applied' = TRUE
                   /\ pgTx' = pgTx
                   /\ mrun' = [mrun EXCEPT
                                 !.attempted = @ \cup {column_name},
                                 !.added = @ \cup {column_name}]
                   /\ mlog' = Append(mlog, "added")
              ELSE /\ pgTx' = "aborted"
                   /\ mrun' = [mrun EXCEPT
                                 !.attempted = @ \cup {column_name},
                                 !.failed = @ \cup {column_name},
                                 !.faults = @ + (IF fault THEN 1 ELSE 0)]
                   /\ mlog' = Append(mlog, "warning")
                   /\ UNCHANGED << pgTxCols, migration_applied >>
       ELSE /\ mlog' = Append(mlog, "exists")
            /\ UNCHANGED << pgTxCols, migration_applied, pgTx, mrun >>
    /\ idx' = idx + 1
    /\ UNCHANGED << pgCols, pgRows, pc, runAsMain, railwayEnv, boots, bootLog, mpc,
                    existing_columns, pgRuns, introspectFailed, raisedToCaller,
                    scriptVars, program, killed, pgMem, pgLogs,
                    notMig >>

\* After the loop: "if migration_applied: db.commit()", then cursor.close()
\* and db.close(); closing discards whatever was not committed.
run_migrations_finish ==
    /\ mpc = "columns"
    /\ idx > Len(columns_to_add)
    /\ pgCols' = IF migration_applied
                 THEN PgCommit(pgTx, pgCols, pgTxCols)
                 ELSE pgCols
    /\ pgTx' = "closed"
    /\ pgTxCols' = pgCols'
    /\ mpc' = "idle"
    /\ pc' = "loaded"
    /\ bootLog' = Append(bootLog, "run_migrations")
    /\ pgRuns' = Append(pgRuns,
          RunRecord(mrun.before, pgCols', mrun.attempted, mrun.added,
                    mrun.failed, mrun.faults, mrun.rowsBefore, pgRows))
    /\ mrun' = NoRun
    /\ pgLogs' = Append(pgLogs,
          mlog \o (IF migration_applied THEN << "commit", "applied" >>
                                        ELSE << "up to date" >>))
    /\ mlog' = << >>
    /\ UNCHANGED << pgRows, runAsMain, railwayEnv, boots, existing_columns, idx,
                    migration_applied, introspectFailed, raisedToCaller,
                    scriptVars, program, killed, pgMem,
                    notMig >>

\* The module body has run to its end: a script's process ends, an imported
\* module's server starts handling requests.
ModuleLoaded ==
    /\ pc = "loaded"
    /\ IF runAsMain
       THEN /\ pc' = "down"
            /\ UNCHANGED bootLog
       ELSE /\ pc' = "serving"
            /\ bootLog' = Append(bootLog, "serve")
    /\ pgTx' = IF runAsMain THEN "closed" ELSE pgTx
    /\ UNCHANGED << pgCols, pgRows, pgTxCols, runAsMain, railwayEnv, boots, mpc,
                    existing_columns, idx, migration_applied, mrun, pgRuns,
                    introspectFailed, raisedToCaller, scriptVars, program, killed, pgMem, mlog, pgLogs,
                    notMig >>

\* A request handler inserts one row over a connection of its own:
\* submit_message; submit_text_memory, which names neither storage_type nor
\* file_size; an upload, which names both (the INSERT raises on a table
\* without them, and the handler answers with an error).
HandleRequest ==
    /\ pc \in {"app_run", "serving"}
    /\ pgCols # {}
    /\ \E t \in {"messages", "memories"}, values \in {TextMemoryValues, UploadValues} :
          /\ pgRows[t] < MaxRows
          /\ pgRows' = [pgRows EXCEPT ![t] = @ + 1]
          /\ IF t = "memories"
             THEN /\ InsertAccepted(pgCols, values)
                  /\ pgMem' = Append(pgMem, StoredRow(pgCols, values))
             ELSE /\ values = TextMemoryValues
                  /\ UNCHANGED pgMem
    /\ UNCHANGED << pgCols, pgTx, pgTxCols, pc, runAsMain, railwayEnv, boots,
                    bootLog, mpc, existing_columns, idx, migration_applied, mrun,
                    pgRuns, introspectFailed, raisedToCaller, scriptVars, program,
                    killed, mlog, pgLogs,
                    notMig >>

\* The process is killed: its connection drops and PostgreSQL discards the
\* uncommitted transaction.
KillApp ==
    /\ program = "app"
    /\ pc # "down"
    /\ pc' = "down"
    /\ mpc' = "idle"
    /\ pgTx' = "closed"
    /\ pgTxCols' = pgCols
    /\ mrun' = NoRun
    /\ mlog' = << >>
    /\ killed' = IF mpc = "columns"
                 THEN [valid |-> TRUE, program |-> "app",
                       before |-> mrun.before, after |-> pgCols]
                 ELSE killed
    /\ UNCHANGED << pgCols, pgRows, runAsMain, railwayEnv, boots, bootLog,
                    existing_columns, idx, migration_applied, pgRuns,
                    introspectFailed, raisedToCaller, scriptVars, program, pgMem, pgLogs,
                    notMig >>

\* --------------------------------------- db_Setup.py: migrate_database
\* sqlite3.connect, cursor, PRAGMA table_info(memories). Nothing catches a
\* failing connect: the exception leaves migrate_database. A missing table
\* reads as no columns.
migrate_database_begin ==
    /\ program = "db_Setup"
    /\ spc = "idle"
    /\ runsStarted < MaxRuns
    /\ runsStarted' = runsStarted + 1
    /\ slog' = << >>
    /\ \E connects \in BOOLEAN :
          IF connects
          THEN /\ sExisting' = liteCols
               /\ sIdx' = 1
               /\ spc' = "columns"
               /\ scriptRaised' = FALSE
               /\ srun' = [before |-> liteCols, attempted |-> {}, added |-> {},
                           failed |-> {}, faults |-> 0, rowsBefore |-> liteRows]
               /\ UNCHANGED << liteRuns, liteLogs >>
          ELSE /\ scriptRaised' = TRUE
               /\ liteLogs' = Append(liteLogs, << "raised" >>)
               /\ liteRuns' = Append(liteRuns,
                     RunRecord(liteCols, liteCols, {}, {}, {}, 1,
                               liteRows, liteRows))
               /\ UNCHANGED << sExisting, sIdx, spc, srun >>
    /\ UNCHANGED << liteCols, liteRows, appVars, program, killed, liteMem,
                    notMig >>

\* One pass of the loop: ALTER TABLE for a missing column. The sqlite3
\* module opens no transaction for DDL, so a successful ALTER is durable at
\* once; sqlite3.Error is caught and the loop goes on.
migrate_database_column ==
    /\ spc = "columns"
    /\ sIdx <= Len(columns_to_add)
    /\ LET column_name == columns_to_add[sIdx].name IN
       IF ColumnMissing(column_name, sExisting)
       THEN \E fault \in BOOLEAN :
              IF AlterSucceeds(liteCols, column_name, fault)
              THEN /\ liteCols' = AlterTableAddColumn(liteCols, column_name)
                   /\ srun' = [srun EXCEPT
                                 !.attempted = @ \cup {column_name},
                                 !.added = @ \cup {column_name}]
                   /\ slog' = slog \o << "added", "autocommit" >>
              ELSE /\ srun' = [srun EXCEPT
                                 !.attempted = @ \cup {column_name},
                                 !.failed = @ \cup {column_name},
                                 !.faults = @ + (IF fault THEN 1 ELSE 0)]
                   /\ slog' = Append(slog, "warning")
                   /\ UNCHANGED liteCols
       ELSE /\ slog' = Append(slog, "exists")
            /\ UNCHANGED << liteCols, srun >>
    /\ sIdx' = sIdx + 1
    /\ UNCHANGED << liteRows, spc, sExisting, liteRuns, runsStarted, scriptRaised,
                    appVars, program, killed, liteMem, liteLogs,
                    notMig >>

\* After the loop: PRAGMA table_info again, conn.commit(), conn.close().
migrate_database_finish ==
    /\ spc = "columns"
    /\ sIdx > Len(columns_to_add)
    /\ spc' = "idle"
    /\ liteRuns' = Append(liteRuns,
          RunRecord(srun.before, liteCols, srun.attempted, srun.added,
                    srun.failed, srun.faults, srun.rowsBefore, liteRows))
    /\ srun' = NoRun
    /\ liteLogs' = Append(liteLogs, slog \o << "commit", "completed" >>)
    /\ slog' = << >>
    /\ UNCHANGED << liteCols, liteRows, sExisting, sIdx, runsStarted, scriptRaised,
                    appVars, program, killed, liteMem,
                    notMig >>

\* The script is killed inside the loop: what was altered stays altered.
KillScript ==
    /\ spc = "columns"
    /\ spc' = "idle"
    /\ srun' = NoRun
    /\ slog' = << >>
    /\ killed' = [valid |-> TRUE, program |-> "db_Setup",
                  before |-> srun.before, after |-> liteCols]
    /\ UNCHANGED << liteCols, liteRows, sExisting, sIdx, liteRuns, runsStarted,
                    scriptRaised, appVars, program, liteMem, liteLogs,
                    notMig >>

\* ============================================================ backup_restoration.py
\* -------------------------------------------------------------- bounds
\* How many of the sample rows below a store may hold, per table.
MaxMessages == 2
MaxMemories == 2

\* ------------------------------------------------------ values and rows
\* A column value as the sqlite3 module returns it: None, str or int.
PyNone == [t |-> "null", s |-> << >>, n |-> 0]

PyStr(s) == [t |-> "text", s |-> s, n |-> 0]

PyInt(n) == [t |-> "int", s |-> << >>, n |-> n]

\* The table layouts (the column order of PRAGMA table_info and SELECT *).
MessagesColumns == << "id", "name", "relationship", "message", "created_at" >>

MemoriesColumns ==
    << "id", "name", "caption", "image_url", "cloudinary_id", "type",
       "storage_type", "file_size", "created_at" >>

TableColumns(table) ==
    IF table = "messages" THEN MessagesColumns ELSE MemoriesColumns

\* SQLite column affinity of the declared types: INTEGER for id and
\* file_size, NUMERIC for the TIMESTAMP created_at, TEXT for the rest.
ColumnAffinity(column) ==
    IF column \in {"id", "file_size"} THEN "INTEGER"
    ELSE IF column = "created_at" THEN "NUMERIC"
    ELSE "TEXT"

Digit == << "0", "1", "2", "3", "4", "5", "6", "7", "8", "9" >>

IsDigit(c) == \E d \in 1..10 : Digit[d] = c

DigitValue(c) == (CHOOSE d \in 1..10 : Digit[d] = c) - 1

\* str(n) for a non-negative int.
RECURSIVE IntToStr(_)
IntToStr(n) ==
    IF n < 10 THEN << Digit[n + 1] >>
    ELSE IntToStr(n \div 10) \o << Digit[(n % 10) + 1] >>

\* int(s) for a string of digits.
RECURSIVE StrToInt(_)
StrToInt(s) ==
    IF s = << >> THEN 0
    ELSE 10 * StrToInt(SubSeq(s, 1, Len(s) - 1)) + DigitValue(s[Len(s)])

LooksInteger(s) == Len(s) > 0 /\ \A i \in 1..Len(s) : IsDigit(s[i])

\* str(val)
Str(val) == IF val.t = "int" THEN IntToStr(val.n) ELSE val.s

\* What a column of the given affinity stores for a value handed to it.
ApplyAffinity(affinity, val) ==
    IF val.t = "text" /\ affinity \in {"INTEGER", "NUMERIC"} /\ LooksInteger(val.s)
    THEN PyInt(StrToInt(val.s))
    ELSE IF val.t = "int" /\ affinity = "TEXT"
    THEN PyStr(IntToStr(val.n))
    ELSE val

\* ------------------------------------------------ create_backup: encoding
\* str.replace(chr(39), chr(39) * 2) left out: the text is copied as it is.
RECURSIVE EscapeNothing(_)
EscapeNothing(s) ==
    IF s = << >> THEN << >> ELSE << Head(s) >> \o EscapeNothing(Tail(s))

\* str.replace(chr(39), chr(39) * 2): every single quote is doubled.
RECURSIVE Escape(_)
Escape(s) ==
    IF s = << >> THEN << >>
    ELSE (IF Head(s) = "'" THEN << "'", "'" >> ELSE << Head(s) >>)
         \o Escape(Tail(s))

\* f"'{...}'" for every value, None included.
SqlLiteralQuotedNone(val) ==
    << "'" >> \o Escape(IF val.t = "null" THEN << "N", "o", "n", "e" >>
                                          ELSE Str(val))
             \o << "'" >>

\* f"'{...}'" if val is not None else 'NULL'
SqlLiteral(val) ==
    IF val.t = "null" THEN << "N", "U", "L", "L" >>
    ELSE << "'" >> \o Escape(Str(val)) \o << "'" >>

\* One statement of a dump file.
Stmt(kind, table, columns, values) ==
    [kind |-> kind, table |-> table, columns |-> columns, values |-> values]

BeginStmt == Stmt("begin", "", << >>, << >>)

CommitStmt == Stmt("commit", "", << >>, << >>)

\* Text SQLite cannot parse: a statement cut short or overwritten.
BrokenStmt == Stmt("broken", "", << >>, << >>)

\* f"INSERT INTO <table> (<columns>) VALUES (<values>);" for one row
InsertStmt(table, row) ==
    Stmt("insert", table, TableColumns(table),
         [i \in 1..Len(row) |-> SqlLiteral(row[i])])

\* Characters in sort order, for ORDER BY on text.
Alphabet == << "'" >> \o Digit \o << "a", "b", "c", "t", "u" >>

CharOrd(c) == CHOOSE i \in 1..Len(Alphabet) : Alphabet[i] = c

RECURSIVE TextLess(_, _)
TextLess(a, b) ==
    IF b = << >> THEN FALSE
    ELSE IF a = << >> THEN TRUE
    ELSE IF Head(a) = Head(b) THEN TextLess(Tail(a), Tail(b))
    ELSE CharOrd(Head(a)) < CharOrd(Head(b))

CreatedAt(table, row) == row[Len(TableColumns(table))]

\* SELECT * FROM <table> ORDER BY created_at DESC (created_at holds text).
RECURSIVE OrderByCreatedAtDesc(_, _)
OrderByCreatedAtDesc(table, rows) ==
    IF rows = {} THEN << >>
    ELSE LET first == CHOOSE r \in rows :
                        \A q \in rows :
                          ~TextLess(CreatedAt(table, r).s, CreatedAt(table, q).s)
         IN << first >> \o OrderByCreatedAtDesc(table, rows \ {first})

TableInserts(table, rows) ==
    LET ordered == OrderByCreatedAtDesc(table, rows)
    IN [i \in 1..Len(ordered) |-> InsertStmt(table, ordered[i])]

\* The file create_backup writes for a store: BEGIN TRANSACTION, the
\* messages, the memories, COMMIT.
DumpOf(st) ==
    << BeginStmt >> \o TableInserts("messages", st.messages)
                   \o TableInserts("memories", st.memories)
                   \o << CommitStmt >>

\* ------------------------------------------------- restore: SQL parsing
\* The text of a quoted literal from position i on: '' stands for one quote,
\* a single ' ends the literal and must be its last character.
RECURSIVE Unquote(_, _, _)
Unquote(lit, i, acc) ==
    IF i > Len(lit) THEN [ok |-> FALSE, s |-> acc]
    ELSE IF lit[i] = "'"
    THEN IF i + 1 <= Len(lit) /\ lit[i + 1] = "'"
         THEN Unquote(lit, i + 2, Append(acc, "'"))
         ELSE [ok |-> i = Len(lit), s |-> acc]
    ELSE Unquote(lit, i + 1, Append(acc, lit[i]))

\* The value of one literal of a VALUES list, or a syntax error.
ParseLiteral(lit) ==
    IF lit = << "N", "U", "L", "L" >> THEN [ok |-> TRUE, val |-> PyNone]
    ELSE IF Len(lit) >= 2 /\ lit[1] = "'"
    THEN LET u == Unquote(lit, 2, << >>)
         IN [ok |-> u.ok, val |-> PyStr(u.s)]
    ELSE IF LooksInteger(lit) THEN [ok |-> TRUE, val |-> PyInt(StrToInt(lit))]
    ELSE [ok |-> FALSE, val |-> PyNone]

Position(seq, x) == CHOOSE i \in 1..Len(seq) : seq[i] = x

InSeq(seq, x) == \E i \in 1..Len(seq) : seq[i] = x

\* The row an INSERT statement stores: each named column takes its literal's
\* value under the column's affinity, a column not named stays NULL.
InsertedRow(stmt) ==
    LET cols == TableColumns(stmt.table)
    IN [i \in 1..Len(cols) |->
          IF InSeq(stmt.columns, cols[i])
          THEN ApplyAffinity(ColumnAffinity(cols[i]),
                 ParseLiteral(stmt.values[Position(stmt.columns, cols[i])]).val)
          ELSE PyNone]

\* Whether SQLite can prepare and run the INSERT.
InsertRuns(stmt) ==
    /\ stmt.table \in {"messages", "memories"}
    /\ Len(stmt.columns) = Len(stmt.values)
    /\ \A i \in 1..Len(stmt.columns) :
          /\ InSeq(TableColumns(stmt.table), stmt.columns[i])
          /\ ParseLiteral(stmt.values[i]).ok

\* ---------------------------------------------------------- sample rows
Photo == << "p", "h", "o", "t", "o" >>

Video == << "v", "i", "d", "e", "o" >>

Cloudinary == << "c", "l", "o", "u", "d", "i", "n", "a", "r", "y" >>

Local == << "l", "o", "c", "a", "l" >>

\* Rows of messages: an embedded quote, NULL, two quotes in a row, the empty
\* string, text made of digits.
MessageRows ==
    << << PyInt(1), PyStr(<< "a", "'", "b" >>), PyNone, PyStr(<< "'", "'" >>),
          PyStr(<< "t", "1" >>) >>,
       << PyInt(2), PyStr(<< "b" >>), PyStr(<< >>), PyStr(<< "1", "2" >>),
          PyStr(<< "t", "2" >>) >>,
       << PyInt(3), PyStr(<< "'" >>), PyStr(<< "a" >>), PyStr(<< "a" >>),
          PyStr(<< "t", "3" >>) >> >>

\* Rows of memories: NULL caption, cloudinary_id and file_size, an int
\* file_size, quotes inside and at the end of a text.
MemoryRows ==
    << << PyInt(1), PyStr(<< "a" >>), PyNone, PyStr(<< "u" >>), PyNone,
          PyStr(Photo), PyStr(Cloudinary), PyInt(12), PyStr(<< "t", "1" >>) >>,
       << PyInt(2), PyStr(<< "b", "'" >>), PyStr(<< >>),
          PyStr(<< "u", "'", "'", "u" >>), PyStr(<< "c" >>), PyStr(Video),
          PyStr(Local), PyNone, PyStr(<< "t", "2" >>) >>,
       << PyInt(3), PyStr(<< "c" >>), PyStr(<< "'" >>), PyStr(<< "u" >>), PyNone,
          PyStr(Photo), PyNone, PyInt(0), PyStr(<< "t", "3" >>) >> >>

Least(a, b) == IF a < b THEN a ELSE b

MessageSamples ==
    {MessageRows[i] : i \in 1..Least(MaxMessages, Len(MessageRows))}

MemorySamples ==
    {MemoryRows[i] : i \in 1..Least(MaxMemories, Len(MemoryRows))}

StoreStates == [messages : SUBSET MessageSamples, memories : SUBSET MemorySamples]

EmptyStore == [messages |-> {}, memories |-> {}]

\* -------------------------------------------- the sqlite3 connection
\* A connection: the committed store, the rows the connection reads, whether
\* it has an open transaction, how many statements of a script it has run
\* and whether one of them raised.
Conn(st, vw, txn) ==
    [store |-> st, view |-> vw, inTxn |-> txn, executed |-> 0, error |-> FALSE]

\* conn.commit(): an open transaction becomes the committed store.
ConnCommit(c) ==
    IF c.inTxn THEN [c EXCEPT !.store = c.view, !.inTxn = FALSE] ELSE c

\* One statement of a script on the connection.
ExecStmt(stmt, c) ==
    IF stmt.kind = "begin"
    THEN IF c.inTxn THEN [c EXCEPT !.error = TRUE]
         ELSE [c EXCEPT !.inTxn = TRUE, !.executed = @ + 1]
    ELSE IF stmt.kind = "commit"
    THEN IF ~c.inTxn THEN [c EXCEPT !.error = TRUE]
         ELSE [c EXCEPT !.store = c.view, !.inTxn = FALSE, !.executed = @ + 1]
    ELSE IF stmt.kind = "insert" /\ InsertRuns(stmt)
    THEN LET grown == [c.view EXCEPT ![stmt.table] = @ \cup {InsertedRow(stmt)}]
         IN [c EXCEPT !.view = grown,
                      !.store = IF c.inTxn THEN c.store ELSE grown,
                      !.executed = @ + 1]
    ELSE [c EXCEPT !.error = TRUE]

\* The statements from the i-th on, one after the other, up to the first
\* that raises; what ran before it stays as it is.
RECURSIVE ExecFrom(_, _, _)
ExecFrom(stmts, i, c) ==
    IF i > Len(stmts) \/ c.error THEN c
    ELSE ExecFrom(stmts, i + 1, ExecStmt(stmts[i], c))

\* cursor.executescript(sql_script): commits a pending transaction, then runs
\* the statements.
executescript(stmts, c) == ExecFrom(stmts, 1, ConnCommit(c))

\* ------------------------------------------------- BackupRestoration
\* "if messages_count > 0 or memories_count > 0"
DatabaseHasBoth(messages_count, memories_count) ==
    messages_count > 0 /\ memories_count > 0

DatabaseHasData(messages_count, memories_count) ==
    messages_count > 0 \/ memories_count > 0

\* should_restore without its "if not self.backup_exists".
should_restoreUnguarded(exists, c, countsFail) ==
    /\ ~countsFail
    /\ ~DatabaseHasData(Cardinality(c.view.messages),
                        Cardinality(c.view.memories))

\* should_restore(conn): False without a backup file, False when a count
\* query raises (caught), False when either table has a row.
should_restore(exists, c, countsFail) ==
    /\ exists
    /\ ~countsFail
    /\ ~DatabaseHasData(Cardinality(c.view.messages),
                        Cardinality(c.view.memories))

\* restore's "except Exception": the error is logged, the method returns
\* False, and the connection is left as the failing statement left it.
RestoreExceptionReraised(c) == [ret |-> FALSE, raised |-> TRUE, conn |-> c, count |-> 0]

OnRestoreException(c) == [ret |-> FALSE, raised |-> FALSE, conn |-> c, count |-> 0]

\* "self.restored_count = messages_count + memories_count"
RestoredCountMessagesOnly(messages_count, memories_count) == messages_count

RestoredCount(messages_count, memories_count) ==
    messages_count + memories_count

\* restore(conn): read the file, executescript, commit, count the rows.
restore(exists, c, readable, stmts) ==
    IF ~exists THEN [ret |-> FALSE, raised |-> FALSE, conn |-> c, count |-> 0]
    ELSE IF ~readable THEN OnRestoreException(c)
    ELSE LET ran == executescript(stmts, c) IN
         IF ran.error THEN OnRestoreException(ran)
         ELSE LET done == ConnCommit(ran)
              IN [ret |-> TRUE, raised |-> FALSE, conn |-> done,
                  count |-> RestoredCount(Cardinality(done.view.messages),
                                          Cardinality(done.view.memories))]

\* --------------------------------------------------------------- Init
RestoreIdle ==
    /\ view = store
    /\ inTxn = FALSE
    /\ connOpen = FALSE
    /\ dumpExists = FALSE
    /\ dump = << >>
    /\ damaged = FALSE
    /\ backedUp = EmptyStore
    /\ backup_exists = FALSE
    /\ restored_count = 0
    /\ rpc = "idle"
    /\ outcome = "none"
    /\ restoreRet = "none"
    /\ executed = 0
    /\ execFailed = FALSE
    /\ readFailed = FALSE
    /\ storeBefore = EmptyStore
    /\ arRaised = FALSE
    /\ btab = 0
    /\ backupRet = "none"
    /\ bfault = "none"
    /\ seen = {}

RestoreInit ==
    /\ store \in StoreStates
    /\ RestoreIdle

\* No boot-time restore is under way (its connection is closed).
NoRestoreRunning == rpc \in {"idle", "returned"}

\* No boot has run yet: the store and the dump file are still being set up.
BeforeBoot == rpc = "idle"

\* ------------------------------------------------------------ actions
\* The tables create_backup reads and writes, in its order.
BackupTablesMemoriesFirst == << "memories", "messages" >>

BackupTables == << "messages", "memories" >>

\* create_backup's "except Exception": the error is logged and the method
\* returns False.
BackupExceptionReraised == "raised"

OnBackupException == "False"

\* create_backup(conn, output_path) up to 'BEGIN TRANSACTION;': conn.cursor(),
\* open(output_path, 'w'), which empties an existing file, and the header.
\* When the cursor or the file cannot be opened nothing is written.
create_backup_open ==
    /\ BeforeBoot
    /\ btab = 0
    /\ \E opens \in BOOLEAN :
          IF opens
          THEN /\ dump' = << BeginStmt >>
               /\ dumpExists' = TRUE
               /\ damaged' = FALSE
               /\ backedUp' = EmptyStore
               /\ btab' = 1
               /\ backupRet' = "none"
               /\ bfault' = "none"
               /\ seen' = {store}
          ELSE /\ backupRet' = OnBackupException
               /\ bfault' = "open"
               /\ UNCHANGED << dump, dumpExists, damaged, backedUp, btab, seen >>
    /\ UNCHANGED << store, view, inTxn, connOpen, backup_exists, restored_count,
                    rpc, outcome, restoreRet, executed, execFailed, readFailed,
                    storeBefore, arRaised, notRestore >>

\* One table of create_backup: SELECT * ... ORDER BY created_at DESC, PRAGMA
\* table_info, one INSERT written per row; after the last table 'COMMIT;'
\* and "return True". A failing query leaves the file as written so far
\* (the with block closes it) and the method returns False.
create_backup_table ==
    /\ btab \in 1..Len(BackupTables)
    /\ LET table == BackupTables[btab]
           last == btab = Len(BackupTables)
       IN \E reads \in BOOLEAN :
             IF reads
             THEN /\ dump' = dump \o TableInserts(table, store[table])
                                  \o (IF last THEN << CommitStmt >> ELSE << >>)
                  /\ backedUp' = [backedUp EXCEPT ![table] = store[table]]
                  /\ btab' = IF last THEN 0 ELSE btab + 1
                  /\ backupRet' = IF last THEN "True" ELSE backupRet
                  /\ seen' = IF last THEN {} ELSE seen
                  /\ UNCHANGED bfault
             ELSE /\ backupRet' = OnBackupException
                  /\ bfault' = table
                  /\ btab' = 0
                  /\ seen' = {}
                  /\ UNCHANGED << dump, backedUp >>
    /\ UNCHANGED << store, view, inTxn, connOpen, dumpExists, damaged,
                    backup_exists, restored_count, rpc, outcome, restoreRet,
                    executed, execFailed, readFailed, storeBefore, arRaised,
                    notRestore >>

\* Another connection commits inserts or deletes between create_backup's
\* read of the first table and its read of the second (create_backup opens
\* no transaction around its two SELECTs).
ConcurrentWrite ==
    /\ btab > 1
    /\ seen = {store}
    /\ store' \in StoreStates \ {store}
    /\ view' = store'
    /\ seen' = seen \cup {store'}
    /\ UNCHANGED << inTxn, connOpen, dumpExists, dump, damaged, backedUp,
                    backup_exists, restored_count, rpc, outcome, restoreRet,
                    executed, execFailed, readFailed, storeBefore, arRaised,
                    btab, backupRet, bfault, notRestore >>

\* The dump file is damaged before a boot reads it: cut inside statement k,
\* cut just before statement k, or statement k overwritten.
DamageDump ==
    /\ BeforeBoot
    /\ btab = 0
    /\ dumpExists
    /\ ~damaged
    /\ \E k \in 1..Len(dump), how \in {"cut_inside", "cut_between", "corrupt"} :
          dump' = IF how = "cut_inside"
                  THEN Append(SubSeq(dump, 1, k - 1), BrokenStmt)
                  ELSE IF how = "cut_between"
                  THEN SubSeq(dump, 1, k - 1)
                  ELSE [dump EXCEPT ![k] = BrokenStmt]
    /\ damaged' = TRUE
    /\ UNCHANGED << store, view, inTxn, connOpen, dumpExists, backedUp,
                    backup_exists, restored_count, rpc, outcome, restoreRet,
                    executed, execFailed, readFailed, storeBefore, arRaised,
                    backupVars, notRestore >>

\* Before the boot the database file at db_path is another one: a freshly
\* initialized store after a redeploy, or one the application wrote to.
\* (Damage to the dump is taken to come after it: the order makes no
\* difference to what a boot finds.)
ReplaceStore ==
    /\ BeforeBoot
    /\ btab = 0
    /\ ~damaged
    /\ store' \in StoreStates
    /\ view' = store'
    /\ UNCHANGED << inTxn, connOpen, dumpExists, dump, damaged, backedUp,
                    backup_exists, restored_count, rpc, outcome, restoreRet,
                    executed, execFailed, readFailed, storeBefore, arRaised,
                    backupVars, notRestore >>

\* auto_restore_backup_on_init's "except Exception": TRUE when it lets the
\* exception out, FALSE when it logs it and goes on to "return restoration".
AutoRestoreErrorPropagates == FALSE

\* auto_restore_backup_on_init, up to the connection: BackupRestoration(...)
\* looks for the file, sqlite3.connect may raise (caught, logged).
auto_restore_begin ==
    /\ NoRestoreRunning
    /\ btab = 0
    /\ backup_exists' = dumpExists
    /\ restored_count' = 0
    /\ restoreRet' = "none"
    /\ executed' = 0
    /\ execFailed' = FALSE
    /\ readFailed' = FALSE
    /\ storeBefore' = store
    /\ view' = store
    /\ inTxn' = FALSE
    /\ \E connects \in BOOLEAN :
          IF connects
          THEN /\ connOpen' = TRUE
               /\ rpc' = "connected"
               /\ outcome' = "none"
               /\ arRaised' = FALSE
          ELSE /\ connOpen' = FALSE
               /\ rpc' = "returned"
               /\ outcome' = "error"
               /\ arRaised' = AutoRestoreErrorPropagates
    /\ UNCHANGED << store, dumpExists, dump, damaged, backedUp, backupVars, notRestore >>

\* "if restoration.should_restore(conn): success = restoration.restore(conn)"
\* with its logging. The count queries may raise and the file may be gone or
\* unreadable by now; both are caught where they happen.
auto_restore_decide ==
    /\ rpc = "connected"
    /\ \E countsFail \in BOOLEAN, readable \in BOOLEAN :
          LET c == Conn(store, view, inTxn) IN
          IF should_restore(backup_exists, c, countsFail)
          THEN LET r == restore(backup_exists, c, readable, dump) IN
               /\ store' = r.conn.store
               /\ view' = r.conn.view
               /\ inTxn' = r.conn.inTxn
               /\ executed' = r.conn.executed
               /\ execFailed' = r.conn.error
               /\ readFailed' = ~readable
               /\ restored_count' = IF r.ret THEN r.count ELSE restored_count
               /\ restoreRet' = IF r.raised THEN "none"
                                ELSE IF r.ret THEN "True" ELSE "False"
               /\ outcome' = IF r.raised THEN "error"
                             ELSE IF r.ret THEN "restored" ELSE "failed"
               /\ rpc' = IF r.raised THEN "returned" ELSE "closing"
               /\ arRaised' = (r.raised /\ AutoRestoreErrorPropagates)
          ELSE /\ outcome' = "skipped"
               /\ rpc' = "closing"
               /\ UNCHANGED << store, view, inTxn, executed, execFailed,
                               readFailed, restored_count, restoreRet, arRaised >>
    /\ UNCHANGED << connOpen, dumpExists, dump, damaged, backedUp, backup_exists,
                    storeBefore, backupVars, notRestore >>

\* conn.close(): SQLite rolls an open transaction back.
auto_restore_close ==
    /\ rpc = "closing"
    /\ view' = store
    /\ inTxn' = FALSE
    /\ connOpen' = FALSE
    /\ rpc' = "returned"
    /\ UNCHANGED << store, dumpExists, dump, damaged, backedUp, backup_exists,
                    restored_count, outcome, restoreRet, executed, execFailed,
                    readFailed, storeBefore, arRaised, backupVars, notRestore >>

\* get_status(): the report of the restoration object.
get_status ==
    [backup_file_exists |-> backup_exists, records_restored |-> restored_count]

\* ------------------------------------------------------ specifications
MigIdle ==
    /\ program = "none"
    /\ pgCols = {}
    /\ pgRows = [t \in {"messages", "memories"} |-> 0]
    /\ pgMem = << >>
    /\ mlog = << >>
    /\ pgLogs = << >>
    /\ liteMem = << >>
    /\ slog = << >>
    /\ liteLogs = << >>
    /\ pgTx = "closed"
    /\ pgTxCols = {}
    /\ pc = "down"
    /\ runAsMain = FALSE
    /\ railwayEnv = FALSE
    /\ boots = 0
    /\ bootLog = << >>
    /\ mpc = "idle"
    /\ existing_columns = {}
    /\ idx = 1
    /\ migration_applied = FALSE
    /\ mrun = NoRun
    /\ pgRuns = << >>
    /\ introspectFailed = FALSE
    /\ raisedToCaller = FALSE
    /\ liteCols = {}
    /\ liteRows = [t \in {"messages", "memories"} |-> 0]
    /\ spc = "idle"
    /\ sExisting = {}
    /\ sIdx = 1
    /\ srun = NoRun
    /\ liteRuns = << >>
    /\ runsStarted = 0
    /\ scriptRaised = FALSE
    /\ killed = NoKill

\* =====================================================================
\* app.py: the upload, bulk-delete, donation and webhook request handlers
\* =====================================================================

\* The longest file list or id list of one request, the rows memories holds
\* before it, and the requests one behaviour holds.
MaxFiles == 2

MaxStored == 2

MaxCalls == 1

MaxEvents == 3

MAX_IMAGE_SIZE == 5 * 1024 * 1024

MAX_VIDEO_SIZE == 50 * 1024 * 1024

\* str.startswith
StartsWith(s, prefix) ==
    Len(s) >= Len(prefix) /\ SubSeq(s, 1, Len(prefix)) = prefix

ImagePrefix == << "i", "m", "a", "g", "e", "/" >>

VideoPrefix == << "v", "i", "d", "e", "o", "/" >>

\* file.content_type of a part: a Content-Type header, or None without one.
ContentTypes ==
    { PyStr(ImagePrefix \o << "p", "n", "g" >>),
      PyStr(VideoPrefix \o << "m", "p", "4" >>),
      PyNone }

\* One part of request.files: whether it has a filename, its size and content
\* type, whether storing it (the Cloudinary upload, or the local save) gives a
\* URL, and whether its INSERT is executed without a database error.
Files(limit) ==
    [filename : BOOLEAN, size : {limit, limit + 1}, content_type : ContentTypes,
     stored : BOOLEAN, insert : BOOLEAN]

FileLists(limit) == UNION {[1..n -> Files(limit)] : n \in 0..MaxFiles}

\* The loop state of an upload handler: the transaction, the rows inserted in
\* it (with the file each is of), uploaded_count or deleted_count, errors (the file each entry
\* names), and whether an exception left the loop.
LoopStart(next) ==
    [tx |-> "open", rows |-> {}, next |-> next, count |-> 0,
     errors |-> << >>, raised |-> FALSE]

AddError(acc, i) == [acc EXCEPT !.errors = Append(@, i)]

\* cursor.execute('INSERT INTO memories ...') and uploaded_count += 1; a
\* statement that fails, or that follows a failed one, raises and leaves the
\* transaction aborted.
InsertMemory(acc, f, i) ==
    IF acc.tx = "aborted" \/ ~f.insert
    THEN AddError([acc EXCEPT !.tx = "aborted"], i)
    ELSE [acc EXCEPT !.rows = @ \cup {[file |-> i, id |-> acc.next]},
                     !.next = @ + 1,
                     !.count = @ + 1]

\* submit_photo_memory, one round of the loop of lines 605-647.
PhotoFile(acc, f, i) ==
    IF acc.raised \/ ~f.filename THEN acc
    ELSE IF f.size > MAX_IMAGE_SIZE THEN AddError(acc, i)
    ELSE IF f.content_type = PyNone THEN [acc EXCEPT !.raised = TRUE]
    ELSE IF ~StartsWith(f.content_type.s, ImagePrefix) THEN AddError(acc, i)
    ELSE IF ~f.stored THEN AddError(acc, i)
    ELSE InsertMemory(acc, f, i)

\* save_video_locally(file, filename): the URL, or None when the save fails.
save_video_locally(f) == IF f.stored THEN "url" ELSE "None"

\* submit_video_memory, one round of the loop of lines 706-760.
VideoFile(acc, f, i, local) ==
    IF acc.raised \/ ~f.filename THEN acc
    ELSE IF f.size > MAX_VIDEO_SIZE THEN AddError(acc, i)
    ELSE IF f.content_type = PyNone THEN [acc EXCEPT !.raised = TRUE]
    ELSE IF ~StartsWith(f.content_type.s, VideoPrefix) THEN AddError(acc, i)
    ELSE IF local
    THEN IF save_video_locally(f) # "None" THEN InsertMemory(acc, f, i) ELSE acc
    ELSE IF ~f.stored THEN AddError(acc, i)
    ELSE InsertMemory(acc, f, i)

RECURSIVE PhotoLoop(_, _, _)
PhotoLoop(acc, files, i) ==
    IF i > Len(files) THEN acc
    ELSE PhotoLoop(PhotoFile(acc, files[i], i), files, i + 1)

RECURSIVE VideoLoop(_, _, _, _)
VideoLoop(acc, files, i, local) ==
    IF i > Len(files) THEN acc
    ELSE VideoLoop(VideoFile(acc, files[i], i, local), files, i + 1, local)

NoRequest == [handler |-> "none"]

NoResponse == [status |-> 0, count |-> 0, errors |-> << >>, changed |-> {}]

Response(status, count, errors, changed) ==
    [status |-> status, count |-> count, errors |-> errors, changed |-> changed]

\* What an upload handler answers and commits after its loop (lines 649-674):
\* 500 when an exception left the loop, else the commit and 200 or 400.
UploadOutcome(acc) ==
    IF acc.raised THEN Response(500, 0, << >>, {})
    ELSE Response(IF acc.count > 0 THEN 200 ELSE 400, acc.count,
                  acc.errors, PgCommit(acc.tx, {}, acc.rows))

\* An upload request: the form's name, the files, and whether get_db connects.
Upload(handler, named, files, dbOk, acc) ==
    /\ served' = served + 1
    /\ request' = [handler |-> handler, name |-> named, files |-> files,
                   dbOk |-> dbOk]
    /\ response' = IF files = << >> \/ ~named THEN Response(400, 0, << >>, {})
                   ELSE IF ~dbOk THEN Response(500, 0, << >>, {})
                   ELSE UploadOutcome(acc)
    /\ memories' = memories \cup {r.id : r \in response'.changed}
    /\ nextId' = IF files = << >> \/ ~named \/ ~dbOk THEN nextId ELSE acc.next
    /\ UNCHANGED << donations, localVideo, webhookSecret >>
    /\ UNCHANGED notHandlers

submit_photo_memory ==
    /\ served < MaxCalls
    /\ \E named \in BOOLEAN, dbOk \in BOOLEAN, files \in FileLists(MAX_IMAGE_SIZE) :
          Upload("submit_photo_memory", named, files, dbOk,
                 PhotoLoop(LoopStart(nextId), files, 1))

submit_video_memory ==
    /\ served < MaxCalls
    /\ \E named \in BOOLEAN, dbOk \in BOOLEAN, files \in FileLists(MAX_VIDEO_SIZE) :
          Upload("submit_video_memory", named, files, dbOk,
                 VideoLoop(LoopStart(nextId), files, 1, localVideo))

\* What PostgreSQL makes of a parameter compared with the integer column id:
\* an int, a text of digits, or an error.
PgIntegerParam(val) ==
    IF val.t = "int" THEN [ok |-> TRUE, n |-> val.n]
    ELSE IF val.t = "text" /\ LooksInteger(val.s)
    THEN [ok |-> TRUE, n |-> StrToInt(val.s)]
    ELSE [ok |-> FALSE, n |-> 0]

\* Elements of the JSON list 'ids': ids of rows, an id of no row, an id sent
\* as a string, and a string that is no number.
IdSamples ==
    {PyInt(n) : n \in 1..(MaxStored + 1)}
        \cup {PyStr(IntToStr(MaxStored)), PyStr(<< "a", "b", "c" >>)}

IdLists == UNION {[1..n -> IdSamples] : n \in 0..MaxFiles}

\* bulk_delete_memories, one round of the loop of lines 913-946.
DeleteMemory(acc, rows, memory_id, i) ==
    LET key == PgIntegerParam(memory_id)
    IN IF acc.tx = "aborted" THEN AddError(acc, i)
       ELSE IF ~key.ok THEN AddError([acc EXCEPT !.tx = "aborted"], i)
       ELSE IF key.n \notin (rows \ {r.id : r \in acc.rows}) THEN AddError(acc, i)
       ELSE [acc EXCEPT !.rows = @ \cup {[file |-> i, id |-> key.n]},
                        !.count = @ + 1]

RECURSIVE DeleteLoop(_, _, _, _)
DeleteLoop(acc, rows, ids, i) ==
    IF i > Len(ids) THEN acc
    ELSE DeleteLoop(DeleteMemory(acc, rows, ids[i], i), rows, ids, i + 1)

bulk_delete_memories ==
    /\ served < MaxCalls
    /\ \E ids \in IdLists, dbOk \in BOOLEAN :
        LET acc == DeleteLoop(LoopStart(nextId), memories, ids, 1)
        IN /\ served' = served + 1
           /\ request' = [handler |-> "bulk_delete_memories", ids |-> ids,
                          dbOk |-> dbOk]
           /\ response' = IF ids = << >> THEN Response(400, 0, << >>, {})
                          ELSE IF ~dbOk THEN Response(500, 0, << >>, {})
                          ELSE Response(200, acc.count, acc.errors,
                                        PgCommit(acc.tx, {}, acc.rows))
           /\ memories' = memories \ {r.id : r \in response'.changed}
           /\ UNCHANGED << nextId, donations, localVideo, webhookSecret >>
           /\ UNCHANGED notHandlers

\* ---------------------------------------------------------------- donations
SessionIds == {"cs_a", "cs_b"}

EventTypes ==
    {"checkout.session.completed", "checkout.session.expired",
     "payment_intent.succeeded"}

\* A webhook delivery: whether the payload is JSON, whether the
\* Stripe-Signature header verifies against the secret, and the event.
Events ==
    [payloadOk : BOOLEAN, sigOk : BOOLEAN, type : EventTypes, id : SessionIds]

\* json.loads(payload)
json_loads(ev) == IF ev.payloadOk THEN "event" ELSE "ValueError"

\* construct_event, were the Stripe-Signature header never verified.
ConstructEventUnverified(ev) == IF ev.payloadOk THEN "event" ELSE "ValueError"

\* stripe.Webhook.construct_event(payload, sig_header, STRIPE_WEBHOOK_SECRET)
construct_event(ev) ==
    IF ~ev.payloadOk THEN "ValueError"
    ELSE IF ~ev.sigOk THEN "SignatureVerificationError"
    ELSE "event"

\* UPDATE donations SET status = ... WHERE stripe_payment_id = %s
UpdateStatus(rows, id, status) ==
    [s \in SessionIds |-> IF s = id /\ rows[s] # "none" THEN status ELSE rows[s]]

Changed(before, after) == {s \in SessionIds : before[s] # after[s]}

create_payment_intent ==
    /\ served < MaxEvents
    /\ \E amountOk \in BOOLEAN, stripeOk \in BOOLEAN, dbOk \in BOOLEAN,
         id \in SessionIds :
        LET inserted == amountOk /\ stripeOk /\ dbOk
        IN /\ donations[id] = "none"
           /\ served' = served + 1
           /\ request' = [handler |-> "create_payment_intent",
                          amountOk |-> amountOk, stripeOk |-> stripeOk,
                          dbOk |-> dbOk, id |-> id]
           /\ donations' = IF inserted
                           THEN [donations EXCEPT ![id] = "pending"]
                           ELSE donations
           /\ response' = Response(IF ~amountOk THEN 400
                                   ELSE IF inserted THEN 200 ELSE 500,
                                   0, << >>, Changed(donations, donations'))
           /\ UNCHANGED << memories, nextId, localVideo, webhookSecret >>
           /\ UNCHANGED notHandlers

stripe_webhook ==
    /\ served < MaxEvents
    /\ \E ev \in Events :
        LET event == IF webhookSecret THEN construct_event(ev) ELSE json_loads(ev)
        IN /\ served' = served + 1
           /\ request' = [handler |-> "stripe_webhook", event |-> ev]
           /\ donations' =
                 IF event # "event" THEN donations
                 ELSE IF ev.type = "checkout.session.completed"
                 THEN UpdateStatus(donations, ev.id, "completed")
                 ELSE IF ev.type = "checkout.session.expired"
                 THEN UpdateStatus(donations, ev.id, "failed")
                 ELSE donations
           /\ response' = Response(IF event = "event" THEN 200 ELSE 400,
                                   0, << >>, Changed(donations, donations'))
           /\ UNCHANGED << memories, nextId, localVideo, webhookSecret >>
           /\ UNCHANGED notHandlers

\* No request handled yet, on an empty database.
HandlersIdle ==
    /\ memories = {}
    /\ nextId = 1
    /\ donations = [s \in SessionIds |-> "none"]
    /\ localVideo = FALSE
    /\ webhookSecret = FALSE
    /\ served = 0
    /\ request = NoRequest
    /\ response = NoResponse

\* =====================================================================
\* keep_alive.py: BackendKeepAlive, its loop threads and its retry timers
\* =====================================================================

\* The largest max_retries and the failure_threshold a constructor call is
\* given here, and how many start() calls and requests one behaviour holds.
MaxRetriesSetting == 5

ThresholdSetting == 2

MaxStarts == 2

MaxRequests == 3

\* start(delay_startup_ping=10)
delay_startup_ping == 10

Min(a, b) == IF a < b THEN a ELSE b

\* The backoff without its cap of 60 seconds.
BackoffUncapped(retry_count) == 5 * (2 ^ retry_count)

\* backoff_delay = min(5 * (2 ** retry_count), 60)
BackoffDelay(retry_count) == Min(5 * (2 ^ retry_count), 60)

One(x) == SetToBag({x})

LoopThread(type, at, due) == [type |-> type, pc |-> at, due |-> due]

Timer(type, retry, delay) == [type |-> type, retry |-> retry, delay |-> delay]

NoCheck == [due |-> FALSE, invoked |-> FALSE]

NoAttempt == [retry |-> 0, ok |-> TRUE, scheduled |-> << >>]

\* __init__: nothing runs until start() is called.
KeepAliveIdle ==
    /\ is_active = FALSE
    /\ failure_count = 0
    /\ starting = 0
    /\ loops = EmptyBag
    /\ timers = EmptyBag
    /\ checks = EmptyBag
    /\ startsLeft = 0
    /\ requestsLeft = 0
    /\ stopped = FALSE
    /\ sentAfterStop = FALSE
    /\ failsSince = 0
    /\ lastCheck = NoCheck
    /\ lastAttempt = NoAttempt

\* BackendKeepAlive() with the default arguments, never started.
KeepAliveConstructed ==
    /\ max_retries = 3
    /\ failure_threshold = 5
    /\ KeepAliveIdle

\* BackendKeepAlive(max_retries=..., failure_threshold=...), never started,
\* before a behaviour of so many start() calls and requests.
KeepAliveInit(nStarts, nRequests) ==
    /\ max_retries \in {1, MaxRetriesSetting}
    /\ failure_threshold = ThresholdSetting
    /\ is_active = FALSE
    /\ failure_count = 0
    /\ starting = 0
    /\ loops = EmptyBag
    /\ timers = EmptyBag
    /\ checks = EmptyBag
    /\ startsLeft = nStarts
    /\ requestsLeft = nRequests
    /\ stopped = FALSE
    /\ sentAfterStop = FALSE
    /\ failsSince = 0
    /\ lastCheck = NoCheck
    /\ lastAttempt = NoAttempt

\* _make_request sends one request; it is counted, and noted when stop() had
\* returned with no start() call since.
Sends ==
    /\ requestsLeft > 0
    /\ requestsLeft' = requestsLeft - 1
    /\ sentAfterStop' = (sentAfterStop \/ stopped)

\* The timers one failed _ping(ping_type, retry_count) schedules (lines 250-273).
Retries(ping_type, retry_count) ==
    IF retry_count < max_retries
    THEN << Timer(ping_type, retry_count + 1, BackoffDelay(retry_count)) >>
    ELSE << >>

RECURSIVE SeqToBag(_)
SeqToBag(s) == IF s = << >> THEN EmptyBag ELSE One(Head(s)) (+) SeqToBag(Tail(s))

\* _ping(ping_type, retry_count) up to line 273: the request, the counters
\* under the lock, and the retry timer. `fired` is the timer that ran it, if any.
\* What is left of a failed non-startup attempt is the test of line 281.
_ping(ping_type, retry_count, ok, fired) ==
    /\ Sends
    /\ failure_count' = IF ok THEN 0
                        ELSE IF ping_type # "startup" THEN failure_count + 1
                        ELSE failure_count
    /\ failsSince' = IF ok THEN 0
                     ELSE IF ping_type # "startup" THEN failsSince + 1
                     ELSE failsSince
    /\ timers' = IF ok THEN timers (-) fired
                 ELSE (timers (-) fired) (+) SeqToBag(Retries(ping_type, retry_count))
    /\ lastAttempt' = [retry |-> retry_count, ok |-> ok,
                       scheduled |-> IF ok THEN << >>
                                     ELSE Retries(ping_type, retry_count)]

\* Lines 281-282: failure_count is read again, outside the lock, and
\* _handle_critical_failure is called when it has reached the threshold.
AlertTest(due) ==
    lastCheck' = [due |-> due, invoked |-> failure_count >= failure_threshold]

\* start(), lines 105-107: the test of is_active, before the lock is taken.
start_check ==
    /\ startsLeft > 0
    /\ startsLeft' = startsLeft - 1
    /\ stopped' = FALSE
    /\ starting' = IF is_active THEN starting ELSE starting + 1
    /\ UNCHANGED << max_retries, failure_threshold, is_active, failure_count,
                    loops, timers, checks, requestsLeft, sentAfterStop, failsSince,
                    lastCheck, lastAttempt >>
    /\ UNCHANGED notKeepAlive

\* start(), lines 109-133: the flags under the lock, the three loop threads
\* and the startup timer.
start_run ==
    /\ starting > 0
    /\ starting' = starting - 1
    /\ is_active' = TRUE
    /\ failure_count' = 0
    /\ loops' = loops (+) One(LoopThread("primary", "sleep", FALSE))
                      (+) One(LoopThread("secondary", "sleep", FALSE))
                      (+) One(LoopThread("health", "sleep", FALSE))
    /\ timers' = timers (+) One(Timer("startup", 0, delay_startup_ping))
    /\ UNCHANGED << max_retries, failure_threshold, checks, startsLeft, requestsLeft,
                    stopped, sentAfterStop, failsSince, lastCheck, lastAttempt >>
    /\ UNCHANGED notKeepAlive

\* stop(): is_active is cleared under the lock; the joins time out after two
\* seconds each, and no Timer is cancelled.
stop ==
    /\ is_active
    /\ is_active' = FALSE
    /\ stopped' = TRUE
    /\ UNCHANGED << max_retries, failure_threshold, failure_count, starting,
                    loops, timers, checks, startsLeft, requestsLeft, sentAfterStop,
                    failsSince, lastCheck, lastAttempt >>
    /\ UNCHANGED notKeepAlive

\* _keep_alive_loop, lines 179-182: a sleeping loop thread wakes, finds
\* is_active clear and leaves the loop.
loop_exit ==
    \E th \in BagToSet(loops) :
        /\ th.pc = "sleep"
        /\ ~is_active
        /\ loops' = loops (-) One(th)
        /\ UNCHANGED << max_retries, failure_threshold, is_active, failure_count,
                        starting, timers, checks, startsLeft, requestsLeft, stopped,
                        sentAfterStop, failsSince, lastCheck, lastAttempt >>
        /\ UNCHANGED notKeepAlive

\* _keep_alive_loop, lines 181-184: the health loop wakes with is_active set;
\* _check_health sends its request and changes none of the counters.
loop_health ==
    \E th \in BagToSet(loops) :
        /\ th.pc = "sleep"
        /\ th.type = "health"
        /\ is_active
        /\ Sends
        /\ UNCHANGED << max_retries, failure_threshold, is_active, failure_count,
                        starting, loops, timers, checks, startsLeft, stopped,
                        failsSince, lastCheck, lastAttempt >>
        /\ UNCHANGED notKeepAlive

\* _keep_alive_loop, lines 181-186: a ping loop wakes with is_active set and
\* runs _ping(ping_type, 0) in the loop thread.
loop_ping ==
    \E th \in BagToSet(loops), ok \in BOOLEAN :
        /\ th.pc = "sleep"
        /\ th.type # "health"
        /\ is_active
        /\ _ping(th.type, 0, ok, EmptyBag)
        /\ loops' = IF ok THEN loops
                    ELSE (loops (-) One(th))
                            (+) One(LoopThread(th.type, "check",
                                           failure_count' >= failure_threshold))
        /\ UNCHANGED << max_retries, failure_threshold, is_active, starting,
                        checks, startsLeft, stopped, lastCheck >>
        /\ UNCHANGED notKeepAlive

\* _ping, lines 281-284, in a loop thread, which then sleeps again.
loop_alert ==
    \E th \in BagToSet(loops) :
        /\ th.pc = "check"
        /\ AlertTest(th.due)
        /\ loops' = (loops (-) One(th)) (+) One(LoopThread(th.type, "sleep", FALSE))
        /\ UNCHANGED << max_retries, failure_threshold, is_active, failure_count,
                        starting, timers, checks, startsLeft, requestsLeft, stopped,
                        sentAfterStop, failsSince, lastAttempt >>
        /\ UNCHANGED notKeepAlive

\* A threading.Timer fires and runs _ping(ping_type, retry_count) in its own
\* thread: the startup ping of start(), or a retry.
timer_ping ==
    \E t \in BagToSet(timers), ok \in BOOLEAN :
        /\ _ping(t.type, t.retry, ok, One(t))
        /\ checks' = IF ~ok /\ t.type # "startup"
                     THEN checks (+) One([due |-> failure_count' >= failure_threshold])
                     ELSE checks
        /\ UNCHANGED << max_retries, failure_threshold, is_active, starting,
                        loops, startsLeft, stopped, lastCheck >>
        /\ UNCHANGED notKeepAlive

\* _ping, lines 281-284, in a timer thread.
timer_alert ==
    \E c \in BagToSet(checks) :
        /\ AlertTest(c.due)
        /\ checks' = checks (-) One(c)
        /\ UNCHANGED << max_retries, failure_threshold, is_active, failure_count,
                        starting, loops, timers, startsLeft, requestsLeft, stopped,
                        sentAfterStop, failsSince, lastAttempt >>
        /\ UNCHANGED notKeepAlive

InitKeepAlive ==
    /\ MigIdle
    /\ store = EmptyStore
    /\ RestoreIdle
    /\ HandlersIdle
    /\ KeepAliveInit(MaxStarts, MaxRequests)

NextKeepAlive ==
    \/ start_check
    \/ start_run
    \/ stop
    \/ loop_exit
    \/ loop_health
    \/ loop_ping
    \/ loop_alert
    \/ timer_ping
    \/ timer_alert

SpecKeepAlive == InitKeepAlive /\ [][NextKeepAlive]_vars

\* One start() call, and requests enough for the longest chain of retries
\* that reaches the cap of the backoff.
InitPing ==
    /\ MigIdle
    /\ store = EmptyStore
    /\ RestoreIdle
    /\ HandlersIdle
    /\ KeepAliveInit(1, MaxRetriesSetting)

SpecPing == InitPing /\ [][NextKeepAlive]_vars

\* ---------------------------------------------------------------------
\* The upload and bulk-delete handlers, on a memories table of some rows.
InitMemories ==
    /\ MigIdle
    /\ store = EmptyStore
    /\ RestoreIdle
    /\ KeepAliveConstructed
    /\ memories \in SUBSET (1..MaxStored)
    /\ nextId = MaxStored + 1
    /\ donations = [s \in SessionIds |-> "none"]
    /\ localVideo \in BOOLEAN
    /\ webhookSecret = FALSE
    /\ served = 0
    /\ request = NoRequest
    /\ response = NoResponse

NextMemories ==
    \/ submit_photo_memory
    \/ submit_video_memory
    \/ bulk_delete_memories

SpecMemories == InitMemories /\ [][NextMemories]_vars

\* The donation handlers, with and without a webhook secret.
InitDonations ==
    /\ MigIdle
    /\ store = EmptyStore
    /\ RestoreIdle
    /\ KeepAliveConstructed
    /\ memories = {}
    /\ nextId = 1
    /\ donations = [s \in SessionIds |-> "none"]
    /\ localVideo = FALSE
    /\ webhookSecret \in BOOLEAN
    /\ served = 0
    /\ request = NoRequest
    /\ response = NoResponse

NextDonations ==
    \/ create_payment_intent
    \/ stripe_webhook

SpecDonations == InitDonations /\ [][NextDonations]_vars

Init ==
    /\ MigInit
    /\ store = EmptyStore
    /\ RestoreIdle
    /\ KeepAliveConstructed
    /\ HandlersIdle

Next ==
    \/ Boot
    \/ AppRunReturns
    \/ init_db
    \/ run_migrations_begin
    \/ run_migrations_column
    \/ run_migrations_finish
    \/ ModuleLoaded
    \/ HandleRequest
    \/ KillApp
    \/ migrate_database_begin
    \/ migrate_database_column
    \/ migrate_database_finish
    \/ KillScript

Spec == Init /\ [][Next]_vars

InitRestore ==
    /\ MigIdle
    /\ RestoreInit
    /\ KeepAliveConstructed
    /\ HandlersIdle

NextRestore ==
    \/ create_backup_open
    \/ create_backup_table
    \/ ConcurrentWrite
    \/ DamageDump
    \/ ReplaceStore
    \/ auto_restore_begin
    \/ auto_restore_decide
    \/ auto_restore_close

SpecRestore == InitRestore /\ [][NextRestore]_vars

\* ================================================================ claims
Count(seq, x) == Cardinality({i \in 1..Len(seq) : seq[i] = x})

HoldsRows(st) == st.messages # {} \/ st.memories # {}

\* The boot-time restore has gone past should_restore / restore.
RestoreDecided == rpc \in {"closing", "returned"} /\ outcome # "error"

\* C1 (SpecRestore). Restore guard: when messages or memories held at least
\* one row as the boot-time restore began, it executes no statement of the
\* dump, with or without a dump file, and both tables (committed, and as the
\* connection reads them) are what they were.
C1_RestoreGuard ==
    (rpc # "idle" /\ HoldsRows(storeBefore))
        => /\ executed = 0
           /\ store = storeBefore
           /\ view = storeBefore
           /\ restoreRet = "none"

\* A store of messages only, and a dump of other contents, skipped.
C1_Witness ==
    /\ rpc = "returned"
    /\ outcome = "skipped"
    /\ storeBefore.messages = MessageSamples
    /\ storeBefore.memories = {}
    /\ backup_exists
    /\ ~damaged
    /\ backedUp.memories # {}
    /\ backedUp # storeBefore

\* C2 (SpecRestore). Atomic restore failure, as claimed: when a statement of
\* the dump has failed and restore has returned, restore returned False and
\* both tables have zero rows, committed and as the connection passed to
\* restore reads them. (restore has no rollback: the rows inserted before the
\* failing statement stay in the connection's open transaction.)
C2_AtomicRestoreFailure ==
    (rpc = "closing" /\ execFailed)
        => /\ restoreRet = "False"
           /\ store = EmptyStore
           /\ view = EmptyStore

\* C5 (SpecRestore). Restore round trip: when restore ran on the undamaged,
\* readable dump that create_backup wrote of N messages and M memories, it
\* returned True and the store holds exactly those rows, value for value.
C5_RestoreRoundTrip ==
    (RestoreDecided /\ outcome # "skipped" /\ ~damaged /\ ~readFailed)
        => /\ restoreRet = "True"
           /\ store = backedUp
           /\ view = backedUp
           /\ restored_count = Cardinality(backedUp.messages)
                               + Cardinality(backedUp.memories)

\* Every sample row restored, among them an embedded quote and a NULL.
C5_Witness ==
    /\ rpc = "returned"
    /\ restoreRet = "True"
    /\ ~damaged
    /\ storeBefore = EmptyStore
    /\ backedUp.messages = MessageSamples
    /\ backedUp.memories = MemorySamples
    /\ store = backedUp
    /\ \E r \in store.messages : r[2] = PyStr(<< "a", "'", "b" >>) /\ r[3] = PyNone
    /\ \E r \in store.memories : r[8] = PyNone

Idempotent(runs) ==
    \A k \in 2..Len(runs) :
        runs[1].faults = 0
            => (runs[k].added = {} /\ runs[k].after = runs[1].after)

NonDestructive(runs) ==
    \A k \in 1..Len(runs) :
        /\ runs[k].before \subseteq runs[k].after
        /\ runs[k].rowsBefore = runs[k].rowsAfter

\* C4 (Spec). Migration is non-destructive: no run removes or renames a
\* column of memories (during the run and after it the columns include the
\* starting ones) and the row counts of the tables are the same before and
\* after the run.
C4_MigrationNonDestructive ==
    /\ NonDestructive(pgRuns)
    /\ NonDestructive(liteRuns)
    /\ (mpc = "columns" => (mrun.before \subseteq pgTxCols /\ mrun.before \subseteq pgCols))
    /\ (spc = "columns" => srun.before \subseteq liteCols)

\* A run on a table with rows and one of the columns that added the other.
C4_Witness ==
    /\ Len(liteRuns) >= 1
    /\ liteRuns[1].before = BaseColumns \cup {"storage_type"}
    /\ liteRuns[1].added = {"file_size"}
    /\ liteRuns[1].rowsBefore["memories"] > 0

Isolated(runs) ==
    \A k \in 1..Len(runs) :
        (runs[k].failed # {} /\ runs[k].before # {})
            => /\ runs[k].attempted = DesiredColumns \ runs[k].before
               /\ runs[k].added \subseteq runs[k].after
               /\ Cardinality(runs[k].failed) = runs[k].faults

\* C6 (Spec). Per-column failure isolation, as claimed: in a run where an
\* add failed, every missing column was attempted, every column whose add
\* succeeded is in the schema after the run, and each failed column failed
\* of itself, not because another one had.
C6_PerColumnFailureIsolation == Isolated(pgRuns) /\ Isolated(liteRuns)

C10_MigrationCrashAtomic ==
    (killed.valid /\ killed.before # {} /\ DesiredColumns \cap killed.before = {})
        => killed.after \in {killed.before, killed.before \cup DesiredColumns}

\* A finished run's log against what the claim allows: at most one commit,
\* nothing made durable before the last column was processed, the commit
\* after every column; commit and "applied" exactly when the run added a
\* column, "up to date" and no commit otherwise. (Runs that got to the loop.)
SingleCommit(logs, runs) ==
    \A k \in 1..Len(logs) :
        LET log == logs[k]
            processed(i) == Cardinality({j \in 1..(i - 1) :
                               log[j] \in {"added", "warning", "exists"}})
        IN (~InSeq(log, "error") /\ ~InSeq(log, "raised"))
              => /\ Count(log, "commit") <= 1
                 /\ ~InSeq(log, "autocommit")
                 /\ \A i \in 1..Len(log) :
                       log[i] = "commit" => processed(i) = Len(columns_to_add)
                 /\ InSeq(log, "commit") <=> (runs[k].added # {})
                 /\ InSeq(log, "applied") <=> (runs[k].added # {})
                 /\ (runs[k].added = {}) => InSeq(log, "up to date")

\* C11 (Spec). Single commit and applied flag, as claimed, for run_migrations
\* and for migrate_database: a run commits at most once, after all columns
\* and never between two additions; it commits and reports "applied" exactly
\* when it added a column, and otherwise reports "up to date" without a
\* commit. (migrate_database calls conn.commit() whatever it added, reports
\* "completed" in every case, and each of its ALTERs is durable as it runs.)
C11_SingleCommitAppliedFlag ==
    SingleCommit(pgLogs, pgRuns) /\ SingleCommit(liteLogs, liteRuns)

\* Whether every row of memories reads the declared default in a column a
\* run added and the row's INSERT did not name.
ReadsDefault(column_name, value, cols, mem, runs) ==
    (column_name \in cols /\ \E k \in 1..Len(runs) : column_name \in runs[k].added)
        => \A i \in 1..Len(mem) :
              column_name \notin mem[i].given
                  => ReadColumn(mem[i], column_name, cols) = value

\* C12 (Spec). Default value of the added column: once a run has added
\* storage_type, every row written before the run and every row inserted
\* afterwards without a storage_type reads storage_type = 'cloudinary'; a
\* file_size added by a run reads NULL in those rows.
C12_AddedColumnDefault ==
    /\ ReadsDefault("storage_type", "cloudinary", pgCols, pgMem, pgRuns)
    /\ ReadsDefault("file_size", SqlNull, pgCols, pgMem, pgRuns)
    /\ ReadsDefault("storage_type", "cloudinary", liteCols, liteMem, liteRuns)
    /\ ReadsDefault("file_size", SqlNull, liteCols, liteMem, liteRuns)

\* A row written before the run that added both columns, read after it.
C12_Witness ==
    /\ Len(pgRuns) >= 1
    /\ pgRuns[1].added = DesiredColumns
    /\ pgRuns[1].rowsBefore["memories"] = 1
    /\ DesiredColumns \subseteq pgCols
    /\ pc = "serving"
    /\ Len(pgMem) = 1
    /\ pgMem[1].storage_type = Unset
    /\ ReadColumn(pgMem[1], "storage_type", pgCols) = "cloudinary"
    /\ ReadColumn(pgMem[1], "file_size", pgCols) = SqlNull

\* C18 (Spec). Boot connection is closed, as claimed: once run_migrations has
\* returned, on whatever path, the connection it opened is closed, so none
\* is open while requests are handled. (When the information_schema query
\* raises, the outer "except Exception" returns past db.close(); nothing but
\* the garbage collector closes that connection.)
C18_BootConnectionClosed ==
    (pc \in {"loaded", "serving"} /\ mpc = "idle") => pgTx = "closed"

\* The number of single quotes in a text.
Quotes(text) == Cardinality({i \in 1..Len(text) : text[i] = "'"})

\* lit is text between single quotes with every quote of text doubled.
QuotedDoubled(text, lit) ==
    /\ Len(lit) = Len(text) + Quotes(text) + 2
    /\ Quotes(lit) = 2 * Quotes(text) + 2
    /\ lit[1] = "'"
    /\ lit[Len(lit)] = "'"
    /\ LET u == Unquote(lit, 2, << >>) IN u.ok /\ u.s = text

\* lit is how the claim has a value written: NULL bare, anything else quoted.
EncodedAs(val, lit) ==
    IF val = PyNone THEN lit = << "N", "U", "L", "L" >>
    ELSE QuotedDoubled(Str(val), lit)

\* C13 (SpecRestore). Dump value encoding: every INSERT of a file written by
\* create_backup stands for a row it read, each NULL of the row written as
\* the bare keyword NULL and each other value as a single-quoted literal
\* with its quotes doubled (so NULL and '' differ); every row read has its
\* INSERT.
C13_DumpValueEncoding ==
    (dumpExists /\ ~damaged)
        => /\ \A k \in 1..Len(dump) :
                 dump[k].kind = "insert"
                     => \E row \in backedUp[dump[k].table] :
                           /\ Len(dump[k].values) = Len(row)
                           /\ \A i \in 1..Len(row) :
                                 EncodedAs(row[i], dump[k].values[i])
           /\ \A table \in {"messages", "memories"} :
                 \A row \in backedUp[table] :
                    \E k \in 1..Len(dump) :
                       /\ dump[k].kind = "insert"
                       /\ dump[k].table = table
                       /\ \A i \in 1..Len(row) :
                             EncodedAs(row[i], dump[k].values[i])

\* A whole dump of the sample rows, with a NULL, an empty string and a text
\* with an embedded quote among its values.
C13_Witness ==
    /\ backupRet = "True"
    /\ ~damaged
    /\ backedUp.messages = MessageSamples
    /\ \E k \in 1..Len(dump) :
          /\ dump[k].kind = "insert"
          /\ dump[k].table = "messages"
          /\ dump[k].values[2] = << "'", "a", "'", "'", "b", "'" >>
          /\ dump[k].values[3] = << "N", "U", "L", "L" >>
    /\ \E k \in 1..Len(dump) :
          /\ dump[k].kind = "insert"
          /\ dump[k].values[3] = << "'", "'" >>

C15_BackupNeverRaises ==
    /\ backupRet \in {"none", "True", "False"}
    /\ (btab = 0 /\ bfault # "none") => backupRet = "False"
    /\ (backupRet = "True" /\ ~damaged)
          => (bfault = "none" /\ dump = DumpOf(backedUp))

\* The memories query failed after the messages had been written.
C15_Witness ==
    /\ btab = 0
    /\ bfault = "memories"
    /\ backupRet = "False"
    /\ backedUp.messages = MessageSamples
    /\ Len(dump) = 1 + Cardinality(MessageSamples)

\* C16 (SpecRestore). No valid-looking partial dump, as claimed: the file a
\* failed create_backup left behind (a query failed after the file had been
\* opened) is never replayed by the boot-time restore with restore returning
\* True. (The file ends after its last whole INSERT: executescript runs it
\* without error and restore's conn.commit() commits what it held.)
C16_NoValidLookingPartialDump ==
    (rpc \in {"closing", "returned"} /\ backup_exists /\ ~damaged
        /\ bfault \in {"messages", "memories"})
        => restoreRet # "True"

\* C17 (SpecRestore). Consistent dump snapshot, as claimed: the rows a
\* create_backup call that returns True has read from the two tables are the
\* rows of one of the states the store was in during the call. (Another
\* connection may commit between the two SELECTs.)
C17_ConsistentSnapshot ==
    [][(btab = Len(BackupTables) /\ backupRet' = "True")
          => \E s \in seen : backedUp' = s]_vars

\* C19 (SpecRestore). Dump layout: the file a successful create_backup wrote
\* is one BEGIN TRANSACTION, then one INSERT per row of messages, then one
\* INSERT per row of memories, then one COMMIT, and nothing else.
C19_DumpLayout ==
    (backupRet = "True" /\ ~damaged)
        => LET n == Len(dump)
               m == Cardinality(backedUp.messages)
           IN /\ n = m + Cardinality(backedUp.memories) + 2
              /\ dump[1] = BeginStmt
              /\ dump[n] = CommitStmt
              /\ \A i \in 2..(m + 1) :
                    dump[i].kind = "insert" /\ dump[i].table = "messages"
              /\ \A i \in (m + 2)..(n - 1) :
                    dump[i].kind = "insert" /\ dump[i].table = "memories"
              /\ {InsertedRow(dump[i]) : i \in 2..(m + 1)} = backedUp.messages
              /\ {InsertedRow(dump[i]) : i \in (m + 2)..(n - 1)} = backedUp.memories

\* A dump of every sample row of both tables.
C19_Witness ==
    /\ backupRet = "True"
    /\ ~damaged
    /\ backedUp.messages = MessageSamples
    /\ backedUp.memories = MemorySamples
    /\ Len(dump) = Cardinality(MessageSamples) + Cardinality(MemorySamples) + 2
    /\ dump[2].table = "messages"
    /\ dump[Len(dump) - 1].table = "memories"

\* C20 (SpecRestore). Restoration report: after restore returned True,
\* records_restored is the number of rows of messages plus the number of rows
\* of memories in the store as committed; after a skipped or failed restore
\* it is 0.
C20_RestorationReport ==
    (rpc \in {"closing", "returned"})
        => /\ restoreRet = "True"
                 => get_status.records_restored
                       = Cardinality(store.messages) + Cardinality(store.memories)
           /\ restoreRet # "True" => get_status.records_restored = 0

\* Every sample row restored and counted.
C20_Witness ==
    /\ rpc = "returned"
    /\ restoreRet = "True"
    /\ store.messages = MessageSamples
    /\ store.memories = MemorySamples
    /\ get_status.records_restored
          = Cardinality(MessageSamples) + Cardinality(MemorySamples)

\* The retry delay the docstring and the claim give for attempt number k.
ClaimedDelay(k) == IF 5 * (2 ^ k) < 60 THEN 5 * (2 ^ k) ELSE 60

\* C21 (SpecPing). Bounded ping retry: no ping is attempted, or scheduled,
\* with an attempt number above max_retries; a failed attempt number
\* k < max_retries has scheduled exactly one retry, number k + 1, after
\* min(5 * 2^k, 60) seconds; a successful attempt and a failed attempt
\* number max_retries have scheduled none.
C21_BoundedPingRetry ==
    /\ \A t \in BagToSet(timers) : t.retry <= max_retries
    /\ lastAttempt.retry <= max_retries
    /\ lastAttempt.ok => lastAttempt.scheduled = << >>
    /\ (~lastAttempt.ok /\ lastAttempt.retry < max_retries)
          => /\ Len(lastAttempt.scheduled) = 1
             /\ lastAttempt.scheduled[1].retry = lastAttempt.retry + 1
             /\ lastAttempt.scheduled[1].delay = ClaimedDelay(lastAttempt.retry)
    /\ (~lastAttempt.ok /\ lastAttempt.retry >= max_retries)
          => lastAttempt.scheduled = << >>

\* The fifth attempt of a ping has failed and its retry waits the capped 60
\* seconds, not 80.
C21_Witness ==
    /\ ~lastAttempt.ok
    /\ lastAttempt.retry = 4
    /\ Len(lastAttempt.scheduled) = 1
    /\ lastAttempt.scheduled[1].delay = 60
    /\ BagIn(lastAttempt.scheduled[1], timers)

\* C22 (SpecKeepAlive). Consecutive-failure alert, as claimed: failure_count
\* is the number of failed non-startup attempts since the last successful
\* ping, and a failed non-startup attempt has called the critical-failure
\* handler exactly when it left failure_count at or above failure_threshold.
\* (Line 281 reads failure_count again after the lock is released, and
\* start() clears it.)
C22_ConsecutiveFailureAlert ==
    /\ failure_count = failsSince
    /\ lastCheck.invoked <=> lastCheck.due

\* C25 (SpecKeepAlive). No ping after stop, as claimed: no request is sent
\* between the return of stop() and the next call of start(). (stop() cancels
\* no Timer, and _ping does not test is_active.)
C25_NoPingAfterStop == ~sentAfterStop

\* The live loop threads of one ping type.
LoopsRunning(ty) ==
    LET of == {th \in BagToSet(loops) : th.type = ty}
        RECURSIVE Sum(_)
        Sum(S) == IF S = {} THEN 0
                  ELSE LET th == CHOOSE x \in S : TRUE
                       IN CopiesIn(th, loops) + Sum(S \ {th})
    IN Sum(of)

\* C26 (SpecKeepAlive). One loop per ping type, as claimed: at no time are
\* two loop threads of one ping type alive. (start() tests is_active before
\* it takes the lock, and a loop thread that sleeps through stop() and the
\* next start() finds is_active set again.)
C26_OneLoopPerType ==
    \A ty \in {"primary", "secondary", "health"} : LoopsRunning(ty) <= 1

\* The rows the last handler committed for file number i of its request.
RowsOf(i) == {r \in response.changed : r.file = i}

\* A part that is larger than 5 MB or whose content type does not start
\* with 'image/'.
NotAPhoto(f) ==
    \/ f.size > 5 * 1024 * 1024
    \/ f.content_type = PyNone
    \/ ~StartsWith(f.content_type.s, << "i", "m", "a", "g", "e", "/" >>)

\* C23 (SpecMemories). Photo upload validation, as claimed: after
\* submit_photo_memory has handled a request with a name and files on a
\* database that connects, no row is committed for a file that is larger
\* than 5 MB or is no image and each such file has one entry in errors; the
\* rows committed are as many as the 'uploaded' count; and the status is 200
\* when that count is positive and 400 otherwise. (An INSERT that raises
\* aborts the PostgreSQL transaction and the commit then keeps no row; a part
\* without Content-Type ends the request with 500.)
C23_PhotoUploadValidation ==
    (request.handler = "submit_photo_memory" /\ request.name /\ request.dbOk
        /\ request.files # << >>)
        => /\ \A i \in 1..Len(request.files) :
                (request.files[i].filename /\ NotAPhoto(request.files[i]))
                    => RowsOf(i) = {} /\ Count(response.errors, i) = 1
           /\ Cardinality(response.changed) = response.count
           /\ response.status = IF response.count > 0 THEN 200 ELSE 400

\* C24 (SpecDonations). Donation status is monotonic, as claimed: a donation
\* row is pending, completed or failed, it is pending when it appears, and a
\* completed donation stays completed whatever is delivered next. (The UPDATE
\* of a checkout.session.expired event has no test of the current status.)
C24_DonationStatusMonotonic ==
    [][\A s \in SessionIds :
          /\ donations'[s] \in {"none", "pending", "completed", "failed"}
          /\ (donations[s] = "none" /\ donations'[s] # "none")
                => donations'[s] = "pending"
          /\ donations[s] = "completed" => donations'[s] = "completed"]_vars

\* C27 (SpecDonations). Webhook signature gate: with a webhook secret set, a
\* delivery whose signature does not verify or whose payload is no JSON is
\* answered 400 and changes no donation; and a delivery that changes a
\* donation is a checkout.session.completed or checkout.session.expired event
\* and changes only the donation of its session id.
C27_WebhookSignatureGate ==
    request.handler = "stripe_webhook"
        => /\ (webhookSecret /\ (~request.event.sigOk \/ ~request.event.payloadOk))
                 => response.status = 400 /\ response.changed = {}
           /\ response.changed # {}
                 => /\ request.event.type \in {"checkout.session.completed",
                                               "checkout.session.expired"}
                    /\ response.changed = {request.event.id}

\* A completion for a pending donation, with a signature that does not
\* verify, was answered 400 and the donation is still pending.
C27_Witness ==
    /\ request.handler = "stripe_webhook"
    /\ webhookSecret
    /\ request.event.payloadOk
    /\ ~request.event.sigOk
    /\ request.event.type = "checkout.session.completed"
    /\ donations[request.event.id] = "pending"
    /\ response.status = 400

\* C28 (SpecMemories). Bulk memory delete accounting, as claimed: after
\* bulk_delete_memories has handled a non-empty id list on a database that
\* connects, deleted_count plus the number of error entries is the number of
\* ids, deleted_count is the number of rows the call removed, and every id
\* of the list that named a row has had its row removed, whatever happened
\* to the other ids. (An id PostgreSQL cannot compare with the integer column
\* aborts the transaction: the later ids fail and the commit removes nothing.)
C28_BulkDeleteAccounting ==
    (request.handler = "bulk_delete_memories" /\ request.dbOk
        /\ request.ids # << >>)
        => LET before == memories \cup {r.id : r \in response.changed}
           IN /\ response.count + Len(response.errors) = Len(request.ids)
              /\ response.count = Cardinality(response.changed)
              /\ \A i \in 1..Len(request.ids) :
                    LET key == PgIntegerParam(request.ids[i])
                    IN (key.ok /\ key.n \in before) => key.n \notin memories

\* C29 (SpecMemories). Every video is accounted for, as claimed: after
\* submit_video_memory has handled a request with a name and files on a
\* database that connects, every file with a filename has exactly one
\* committed row that 'uploaded' counts, or an entry in errors. (In local
\* mode a file whose save fails gets neither.)
C29_EveryVideoAccountedFor ==
    (request.handler = "submit_video_memory" /\ request.name /\ request.dbOk
        /\ request.files # << >>)
        => \A i \in 1..Len(request.files) :
              request.files[i].filename
                  => \/ /\ Cardinality(RowsOf(i)) = 1
                        /\ response.count = Cardinality(response.changed)
                     \/ Count(response.errors, i) >= 1

====
